---- MODULE Spec2Model ----
(***************************************************************************)
(* Model of logistic-regression/regression_lib.py: the loss functions      *)
(* square_loss and hinge_loss and the generator gradient_descent.          *)
(*                                                                         *)
(* Numbers are exact rationals <<num, den>> (den > 0, lowest terms).       *)
(* numpy arrays are objects on a heap (a sequence of values, an address is *)
(* an index), so that in-place updates and aliasing are visible.           *)
(***************************************************************************)
EXTENDS Integers, Sequences, FiniteSets

(* ------------------------------------------------------------------ *)
(* Bounds of the model.                                                *)
MaxSteps == 2
MaxStops == 2

(* ------------------------------------------------------------------ *)
(* Exact arithmetic standing for numpy's scalar arithmetic.            *)
Abs(x) == IF x < 0 THEN -x ELSE x

RECURSIVE GCD(_, _)
GCD(a, b) == IF b = 0 THEN a ELSE GCD(b, a % b)

Rat(n, d) ==
  LET g == GCD(Abs(n), Abs(d))
      s == IF d < 0 THEN -1 ELSE 1
  IN <<(s * n) \div g, (s * d) \div g>>

Zero == <<0, 1>>
One == <<1, 1>>
Two == <<2, 1>>

RAdd(a, b) ==
  IF a[2] = 1 /\ b[2] = 1 THEN <<a[1] + b[1], 1>> ELSE
  LET g == GCD(a[2], b[2])
  IN Rat(a[1] * (b[2] \div g) + b[1] * (a[2] \div g), (a[2] \div g) * b[2])

RNeg(a) == <<-a[1], a[2]>>

RSub(a, b) == RAdd(a, RNeg(b))

RMul(a, b) ==
  IF a[2] = 1 /\ b[2] = 1 THEN <<a[1] * b[1], 1>> ELSE
  LET g1 == GCD(Abs(a[1]), b[2])
      g2 == GCD(Abs(b[1]), a[2])
  IN <<(a[1] \div g1) * (b[1] \div g2), (a[2] \div g2) * (b[2] \div g1)>>

RDivInt(a, k) == RMul(a, <<1, k>>)

RLt(a, b) == a[1] * b[2] < b[1] * a[2]

RLe(a, b) == a[1] * b[2] <= b[1] * a[2]

RMax(a, b) == IF RLt(a, b) THEN b ELSE a

(* ------------------------------------------------------------------ *)
(* Array operations (vectors are sequences, matrices sequences of rows) *)
(* AsArray makes the array a concrete tuple, computed once.             *)
AsArray(f) == f \o <<>>

RECURSIVE SumSeq(_)
SumSeq(s) == IF s = <<>> THEN Zero ELSE RAdd(s[1], SumSeq(Tail(s)))

VMul(u, v) == AsArray([i \in 1..Len(u) |-> RMul(u[i], v[i])])

Dot(u, v) == SumSeq(VMul(u, v))

MatVec(M, v) == AsArray([i \in 1..Len(M) |-> Dot(M[i], v)])

Col(M, j) == AsArray([i \in 1..Len(M) |-> M[i][j]])

Zeros(n) == AsArray([i \in 1..n |-> Zero])

(* ------------------------------------------------------------------ *)
(* The heap.  np.zeros_like(theta) allocates a fresh array.            *)
zeros_like_alias(h, a) == [heap |-> h, ref |-> a]

zeros_like(h, a) == [heap |-> Append(h, Zeros(Len(h[a]))), ref |-> Len(h) + 1]

(* ------------------------------------------------------------------ *)
(* square_loss(X, y, theta, reg_beta): X, y, theta are addresses in h.  *)
(* The result carries the heap after the call, the scalar loss and the  *)
(* address of the freshly built gradient.                               *)
margin_of(h, X, y, theta) == VMul(h[y], MatVec(h[X], h[theta]))

square_loss_value_nopenalty(diff, th, reg_beta, k) == RDivInt(Dot(diff, diff), k)

square_loss_value(diff, th, reg_beta, k) ==
  RAdd(RDivInt(Dot(diff, diff), k), RDivInt(RMul(Dot(th, th), reg_beta), 2))

square_dtheta_j_unscaled(diff, yv, Xv, th, reg_beta, k, j) ==
  RAdd(RDivInt(Dot(VMul(diff, yv), Col(Xv, j)), k), RMul(reg_beta, th[j]))

square_dtheta_j(diff, yv, Xv, th, reg_beta, k, j) ==
  RAdd(RDivInt(RMul(Two, Dot(VMul(diff, yv), Col(Xv, j))), k),
       RMul(reg_beta, th[j]))

RECURSIVE square_loop(_, _, _, _, _, _, _, _, _)
square_loop(h, X, y, theta, diff, dtheta, reg_beta, j, n) ==
  IF j > n THEN h
  ELSE square_loop(
         [h EXCEPT ![dtheta][j] =
            square_dtheta_j(diff, h[y], h[X], h[theta], reg_beta, Len(h[X]), j)],
         X, y, theta, diff, dtheta, reg_beta, j + 1, n)

square_loss(h, X, y, theta, reg_beta) ==
  LET k == Len(h[X])
      n == Len(h[X][1])
      margin == margin_of(h, X, y, theta)
      diff == AsArray([i \in 1..k |-> RSub(margin[i], One)])
      loss == square_loss_value(diff, h[theta], reg_beta, k)
      z == zeros_like(h, theta)
  IN [heap |-> square_loop(z.heap, X, y, theta, diff, z.ref, reg_beta, 1, n),
      loss |-> loss,
      dtheta |-> z.ref]

(* ------------------------------------------------------------------ *)
(* hinge_loss(X, y, theta, reg_beta).                                   *)
hinge_loss_value(margin, th, reg_beta, k) ==
  RAdd(RDivInt(SumSeq(AsArray([i \in 1..Len(margin) |->
                                 RMax(Zero, RSub(One, margin[i]))])), k),
       RDivInt(RMul(Dot(th, th), reg_beta), 2))

margin_selector_le(margin) ==
  AsArray([i \in 1..Len(margin) |-> RLe(margin[i], One)])

margin_selector(margin) ==
  AsArray([i \in 1..Len(margin) |-> RLt(margin[i], One)])

hinge_dtheta_j(sel, yx, th, reg_beta, k, j) ==
  RAdd(RDivInt(SumSeq(AsArray([i \in 1..Len(sel) |->
                                 IF sel[i] THEN RNeg(yx[i][j]) ELSE Zero])), k),
       RMul(reg_beta, th[j]))

RECURSIVE hinge_loop(_, _, _, _, _, _, _, _, _)
hinge_loop(h, X, theta, sel, yx, dtheta, reg_beta, j, n) ==
  IF j > n THEN h
  ELSE hinge_loop(
         [h EXCEPT ![dtheta][j] =
            hinge_dtheta_j(sel, yx, h[theta], reg_beta, Len(h[X]), j)],
         X, theta, sel, yx, dtheta, reg_beta, j + 1, n)

hinge_loss(h, X, y, theta, reg_beta) ==
  LET k == Len(h[X])
      n == Len(h[X][1])
      margin == margin_of(h, X, y, theta)
      loss == hinge_loss_value(margin, h[theta], reg_beta, k)
      z == zeros_like(h, theta)
      yx == AsArray([i \in 1..k |->
                      AsArray([j \in 1..n |-> RMul(z.heap[y][i], z.heap[X][i][j])])])
      sel == margin_selector(margin)
  IN [heap |-> hinge_loop(z.heap, X, theta, sel, yx, z.ref, reg_beta, 1, n),
      loss |-> loss,
      dtheta |-> z.ref]

(* A loss function passed as a value: "square" or "hinge".              *)
LossFuncs == {"square", "hinge"}

apply_loss(f, h, X, y, theta, reg_beta) ==
  IF f = "square" THEN square_loss(h, X, y, theta, reg_beta)
  ELSE hinge_loss(h, X, y, theta, reg_beta)

(* ------------------------------------------------------------------ *)
(* State.                                                               *)
VARIABLES
  heap,      \* the arrays: heap[XRef] is X, heap[YRef] is y, then theta, dtheta...
  data,      \* the caller's X and y as they were when handed over
  gen,       \* the generator object made by gradient_descent(...)
  pairs,     \* what the consumer has received, in order
  stops,     \* how many times the consumer was answered with StopIteration
  nevals,    \* how many times the generator has called lossfunc
  nupdates,  \* how many times the generator has updated theta
  call       \* the latest direct call of a loss function and its result

vars == <<heap, data, gen, pairs, stops, nevals, nupdates, call>>

XRef == 1
YRef == 2

IntVec(v) == AsArray([i \in 1..Len(v) |-> <<v[i], 1>>])

IntMat(M) == AsArray([i \in 1..Len(M) |-> IntVec(M[i])])

(* Inputs. *)
ScenarioData == [X |-> IntMat(<<<<1, 1>>, <<1, 2>>, <<1, 3>>, <<1, 4>>>>),
                 y |-> IntVec(<<1, 1, -1, -1>>)]

Datasets ==
  { [X |-> IntMat(<<<<1>>>>), y |-> IntVec(<<1>>)],
    [X |-> IntMat(<<<<2>>, <<-1>>>>), y |-> IntVec(<<1, 1>>)],
    [X |-> IntMat(<<<<1, 1>>, <<1, 2>>>>), y |-> IntVec(<<1, -1>>)],
    [X |-> IntMat(<<<<1, 0>>, <<1, -1>>, <<1, 2>>>>), y |-> IntVec(<<-1, -1, 1>>)],
    ScenarioData }

LearningRates == { <<1, 10>>, <<1, 2>> }

RegBetas == { Zero, One }

ThetaInputs(n) ==
  IF n = 1 THEN { <<Zero>>, <<One>>, <<<<-1, 2>>>> }
  ELSE { Zeros(n), AsArray([i \in 1..n |-> IF i = 1 THEN One ELSE Zero]),
         AsArray([i \in 1..n |-> IF i = 1 THEN <<-1, 1>> ELSE <<1, 2>>]) }

Scenario == [data |-> ScenarioData, lossfunc |-> "hinge", nsteps |-> 50,
             learning_rate |-> <<1, 10>>]

NoCall == [fn |-> "none", theta |-> <<>>, reg_beta |-> Zero, loss |-> Zero,
           dtheta |-> <<>>, theta_after |-> <<>>]

(* gradient_descent(X, y, lossfunc, nsteps, learning_rate): calling it   *)
(* only builds the generator; no line of the body has run.               *)
gradient_descent(f, ns, lr) ==
  [pc |-> "start", lossfunc |-> f, nsteps |-> ns, learning_rate |-> lr,
   theta |-> 0, dtheta |-> 0, loss |-> Zero, step |-> 0]

Init ==
  /\ \E d \in Datasets, f \in LossFuncs, ns \in 0..MaxSteps, lr \in LearningRates :
       \/ /\ data = d
          /\ gen = gradient_descent(f, ns, lr)
       \/ /\ data = Scenario.data
          /\ gen = gradient_descent(Scenario.lossfunc, Scenario.nsteps,
                                    Scenario.learning_rate)
  /\ heap = <<data.X, data.y>>
  /\ pairs = <<>>
  /\ stops = 0
  /\ nevals = 0
  /\ nupdates = 0
  /\ call = NoCall

(* ------------------------------------------------------------------ *)
(* The body of gradient_descent.                                        *)
default_reg_beta_one == One

default_reg_beta == Zero

gd_lossfunc(f, h, X, y, theta) == apply_loss(f, h, X, y, theta, default_reg_beta)

gd_update_plus(h, theta, lr, dtheta) ==
  [h EXCEPT ![theta] = AsArray([j \in 1..Len(h[theta]) |->
                                  RAdd(h[theta][j], RMul(lr, h[dtheta][j]))])]

gd_update_full_step(h, theta, lr, dtheta) ==
  [h EXCEPT ![theta] = AsArray([j \in 1..Len(h[theta]) |->
                                  RSub(h[theta][j], h[dtheta][j])])]

gd_update(h, theta, lr, dtheta) ==
  [h EXCEPT ![theta] = AsArray([j \in 1..Len(h[theta]) |->
                                  RSub(h[theta][j], RMul(lr, h[dtheta][j]))])]

range_has_next_inclusive(step, nsteps) == step <= nsteps

range_has_next(step, nsteps) == step < nsteps

gd_finish_restart(g) == [g EXCEPT !.pc = "start", !.step = 0]

gd_finish(g) == [g EXCEPT !.pc = "done"]

Received(th, h0, r) ==
  [theta |-> th, loss |-> r.loss, at_yield |-> r.heap[th], arg |-> h0[th],
   grad |-> r.heap[r.dtheta]]

(* First next(): lines 136-139. *)
GdStart ==
  /\ gen.pc = "start"
  /\ \E th \in {Len(heap) + 1}, h1 \in {Append(heap, Zeros(Len(heap[XRef][1])))} :
       \E r \in {gd_lossfunc(gen.lossfunc, h1, XRef, YRef, th)} :
        /\ heap' = r.heap
        /\ gen' = [gen EXCEPT !.pc = "yielded", !.theta = th, !.loss = r.loss,
                              !.dtheta = r.dtheta]
        /\ pairs' = Append(pairs, Received(th, h1, r))
  /\ nevals' = nevals + 1
  /\ UNCHANGED <<data, stops, nupdates, call>>

(* A later next() that finds another step to run: lines 140-143. *)
GdStep ==
  /\ gen.pc = "yielded"
  /\ range_has_next(gen.step, gen.nsteps)
  /\ \E h1 \in {gd_update(heap, gen.theta, gen.learning_rate, gen.dtheta)} :
       \E r \in {gd_lossfunc(gen.lossfunc, h1, XRef, YRef, gen.theta)} :
        /\ heap' = r.heap
        /\ gen' = [gen EXCEPT !.step = gen.step + 1, !.loss = r.loss,
                              !.dtheta = r.dtheta]
        /\ pairs' = Append(pairs, Received(gen.theta, h1, r))
  /\ nevals' = nevals + 1
  /\ nupdates' = nupdates + 1
  /\ UNCHANGED <<data, stops, call>>

(* A next() that finds the loop over: the body returns, StopIteration. *)
GdStop ==
  /\ gen.pc = "yielded"
  /\ ~range_has_next(gen.step, gen.nsteps)
  /\ stops < MaxStops
  /\ gen' = gd_finish(gen)
  /\ stops' = stops + 1
  /\ UNCHANGED <<heap, data, pairs, nevals, nupdates, call>>

(* next() on a generator that has returned: StopIteration again. *)
GdExhausted ==
  /\ gen.pc = "done"
  /\ stops < MaxStops
  /\ stops' = stops + 1
  /\ UNCHANGED <<heap, data, gen, pairs, nevals, nupdates, call>>

(* ------------------------------------------------------------------ *)
(* A caller's own call lossfunc(X, y, theta, reg_beta) with a theta of  *)
(* its own; the arrays made for the call are dropped afterwards.        *)
LossCall(f) ==
  \E th \in ThetaInputs(Len(heap[XRef][1])), rb \in RegBetas :
    \E a \in {Len(heap) + 1} :
      \E r \in {apply_loss(f, Append(heap, th), XRef, YRef, a, rb)} :
       /\ heap' = SubSeq(r.heap, 1, Len(heap))
       /\ call' = [fn |-> f, theta |-> th, reg_beta |-> rb, loss |-> r.loss,
                   dtheta |-> r.heap[r.dtheta], theta_after |-> r.heap[a]]
       /\ UNCHANGED <<data, gen, pairs, stops, nevals, nupdates>>

SquareLossCall == LossCall("square")

HingeLossCall == LossCall("hinge")

Next ==
  \/ GdStart
  \/ GdStep
  \/ GdStop
  \/ GdExhausted
  \/ SquareLossCall
  \/ HingeLossCall

Spec == Init /\ [][Next]_vars

(* ================================================================== *)
(* Reference mathematics, written from the formulas alone.            *)
RECURSIVE SumFn(_, _)
SumFn(f, S) ==
  IF S = {} THEN Zero
  ELSE LET i == CHOOSE i \in S : TRUE IN RAdd(f[i], SumFn(f, S \ {i}))

NumRows(Xv) == Len(Xv)

NumCols(Xv) == Len(Xv[1])

Score(Xv, th, i) == SumFn([j \in 1..NumCols(Xv) |-> RMul(Xv[i][j], th[j])], 1..NumCols(Xv))

MarginAt(Xv, yv, th, i) == RMul(yv[i], Score(Xv, th, i))

SqNorm(th) == SumFn([j \in 1..Len(th) |-> RMul(th[j], th[j])], 1..Len(th))

Penalty(th, rb) == RMul(RMul(rb, <<1, 2>>), SqNorm(th))

HingeLossRef(Xv, yv, th, rb) ==
  RAdd(RMul(<<1, NumRows(Xv)>>,
            SumFn([i \in 1..NumRows(Xv) |->
                     RMax(Zero, RSub(One, MarginAt(Xv, yv, th, i)))],
                  1..NumRows(Xv))),
       Penalty(th, rb))

ActiveSamples(Xv, yv, th) ==
  {i \in 1..NumRows(Xv) : RLt(MarginAt(Xv, yv, th, i), One)}

HingeGradRef(Xv, yv, th, rb, j) ==
  RAdd(RMul(<<1, NumRows(Xv)>>,
            SumFn([i \in 1..NumRows(Xv) |-> RNeg(RMul(yv[i], Xv[i][j]))],
                  ActiveSamples(Xv, yv, th))),
       RMul(rb, th[j]))

DiffAt(Xv, yv, th, i) == RSub(MarginAt(Xv, yv, th, i), One)

SquareLossRef(Xv, yv, th, rb) ==
  RAdd(RMul(<<1, NumRows(Xv)>>,
            SumFn([i \in 1..NumRows(Xv) |->
                     RMul(DiffAt(Xv, yv, th, i), DiffAt(Xv, yv, th, i))],
                  1..NumRows(Xv))),
       Penalty(th, rb))

SquareGradRef(Xv, yv, th, rb, j) ==
  RAdd(RMul(<<2, NumRows(Xv)>>,
            SumFn([i \in 1..NumRows(Xv) |->
                     RMul(RMul(DiffAt(Xv, yv, th, i), yv[i]), Xv[i][j])],
                  1..NumRows(Xv))),
       RMul(rb, th[j]))

LossRef(f, Xv, yv, th, rb) ==
  IF f = "square" THEN SquareLossRef(Xv, yv, th, rb) ELSE HingeLossRef(Xv, yv, th, rb)

GradRef(f, Xv, yv, th, rb) ==
  [j \in 1..Len(th) |->
     IF f = "square" THEN SquareGradRef(Xv, yv, th, rb, j)
     ELSE HingeGradRef(Xv, yv, th, rb, j)]

(* The result of lossfunc as gradient_descent calls it, on arrays of   *)
(* its own: [loss, dtheta].                                             *)
GdLossAt(th) ==
  LET r == gd_lossfunc(gen.lossfunc, <<data.X, data.y, th>>, XRef, YRef, 3)
  IN [loss |-> r.loss, dtheta |-> r.heap[r.dtheta]]

(* theta - lr * dtheta, elementwise. *)
Stepped(th, lr, d) == [j \in 1..Len(th) |-> RSub(th[j], RMul(lr, d[j]))]

NPairs == Len(pairs)

(* ================================================================== *)
(* Claims.                                                             *)

(* C1: a run consumed to exhaustion has yielded exactly nsteps + 1     *)
(* pairs, whatever the learning rate, the loss function and the loss   *)
(* values; no run ever yields more; the first pair's theta is the zero *)
(* vector of length n and its loss is lossfunc at that zero vector.    *)
C1_ExactlyNstepsPlusOnePairs ==
  /\ NPairs <= gen.nsteps + 1
  /\ stops >= 1 => NPairs = gen.nsteps + 1
  /\ NPairs >= 1 =>
       /\ pairs[1].at_yield = Zeros(NumCols(data.X))
       /\ pairs[1].loss = GdLossAt(Zeros(NumCols(data.X))).loss

(* An exhausted run of two steps whose loss went up on the way (a      *)
(* diverging run is not cut short).                                     *)
C1_Witness ==
  /\ stops >= 1
  /\ gen.nsteps = 2
  /\ NPairs = 3
  /\ RLt(pairs[1].loss, pairs[3].loss)

(* C2: every yielded theta is an independent snapshot: whatever the    *)
(* consumer kept from pair i still has the value it had when pair i    *)
(* was yielded, however far the run has advanced since.                *)
C2_YieldedThetaIsSnapshot ==
  \A i \in 1..NPairs : heap[pairs[i].theta] = pairs[i].at_yield

(* C3: the i-th yielded theta is theta_{i-1} - learning_rate *         *)
(* dtheta_{i-1}, dtheta_{i-1} being the gradient lossfunc returned at  *)
(* theta_{i-1}; and every yielded loss is the loss lossfunc returns    *)
(* for the theta of the same pair.                                     *)
C3_UpdateRuleAndLossOfSameTheta ==
  /\ \A i \in 1..NPairs :
       /\ pairs[i].loss = GdLossAt(pairs[i].at_yield).loss
       /\ pairs[i].grad = GdLossAt(pairs[i].at_yield).dtheta
  /\ \A i \in 2..NPairs :
       pairs[i].at_yield =
         Stepped(pairs[i - 1].at_yield, gen.learning_rate, pairs[i - 1].grad)

(* Two steps were taken, each one moving theta and changing the loss.  *)
C3_Witness ==
  /\ NPairs >= 3
  /\ pairs[2].at_yield # pairs[1].at_yield
  /\ pairs[3].at_yield # pairs[2].at_yield
  /\ pairs[3].loss # pairs[2].loss
  /\ pairs[2].loss # pairs[1].loss

(* C4: X and y are never modified, by a direct call of square_loss or  *)
(* hinge_loss or by any number of gradient descent steps; and a loss   *)
(* function leaves the theta it was given unchanged.                   *)
C4_InputsNeverModified ==
  /\ heap[XRef] = data.X
  /\ heap[YRef] = data.y
  /\ call.fn # "none" => call.theta_after = call.theta
  /\ \A i \in 1..NPairs : pairs[i].at_yield = pairs[i].arg

(* Steps were taken and a loss function was called directly, with a    *)
(* gradient that differs from the theta it was computed at.            *)
C4_Witness ==
  /\ NPairs >= 3
  /\ call.fn # "none"
  /\ call.dtheta # call.theta
  /\ pairs[3].grad # pairs[3].at_yield

(* C5: hinge_loss returns the mean hinge loss plus (reg_beta/2)        *)
(* ||theta||^2, and dtheta[j] = (1/k) * sum over the samples with      *)
(* margin < 1 of -y[i] X[i,j], plus reg_beta theta[j]; a sample with   *)
(* margin exactly 1 (or above) contributes nothing.                    *)
C5_HingeLossFormula ==
  call.fn = "hinge" =>
    /\ call.loss = HingeLossRef(data.X, data.y, call.theta, call.reg_beta)
    /\ Len(call.dtheta) = NumCols(data.X)
    /\ \A j \in 1..NumCols(data.X) :
         call.dtheta[j] = HingeGradRef(data.X, data.y, call.theta, call.reg_beta, j)

(* A regularised hinge_loss call with one sample at margin exactly 1   *)
(* (whose -y X row is not zero) and one sample below it.               *)
C5_Witness ==
  /\ call.fn = "hinge"
  /\ call.reg_beta = One
  /\ \E i \in 1..NumRows(data.X) :
       /\ MarginAt(data.X, data.y, call.theta, i) = One
       /\ \E j \in 1..NumCols(data.X) : data.X[i][j] # Zero
  /\ ActiveSamples(data.X, data.y, call.theta) # {}

(* C6: square_loss returns mean(diff^2) + (reg_beta/2) ||theta||^2 and *)
(* dtheta[j] = (2/k) sum_i diff[i] y[i] X[i,j] + reg_beta theta[j],    *)
(* the gradient having theta's shape.                                  *)
C6_SquareLossFormula ==
  call.fn = "square" =>
    /\ call.loss = SquareLossRef(data.X, data.y, call.theta, call.reg_beta)
    /\ Len(call.dtheta) = Len(call.theta)
    /\ \A j \in 1..Len(call.theta) :
         call.dtheta[j] = SquareGradRef(data.X, data.y, call.theta, call.reg_beta, j)

(* A regularised square_loss call on several samples at a theta that   *)
(* is not zero, with a gradient that is not zero.                      *)
C6_Witness ==
  /\ call.fn = "square"
  /\ call.reg_beta = One
  /\ NumRows(data.X) >= 2
  /\ call.theta # Zeros(Len(call.theta))
  /\ call.dtheta # Zeros(Len(call.theta))

(* C7: for theta # 0 the square loss with reg_beta = 1 is strictly     *)
(* greater than the square loss of the same X, y, theta with           *)
(* reg_beta = 0; and with reg_beta = 0 both loss functions return the  *)
(* unpenalised data loss and a gradient with no theta term.            *)
C7_RegularizationMonotone ==
  /\ (call.fn = "square" /\ call.reg_beta = One
        /\ call.theta # Zeros(Len(call.theta))) =>
       RLt(square_loss(<<data.X, data.y, call.theta>>, XRef, YRef, 3, Zero).loss,
           call.loss)
  /\ (call.fn # "none" /\ call.reg_beta = Zero) =>
       /\ call.loss = LossRef(call.fn, data.X, data.y, call.theta, Zero)
       /\ call.dtheta = GradRef(call.fn, data.X, data.y, call.theta, Zero)

(* A square_loss call with reg_beta = 1 at a theta that is not zero.   *)
C7_Witness ==
  /\ call.fn = "square"
  /\ call.reg_beta = One
  /\ call.theta # Zeros(Len(call.theta))

(* The run is the scenario's run. *)
InScenario ==
  /\ data = Scenario.data
  /\ gen.lossfunc = Scenario.lossfunc
  /\ gen.nsteps = Scenario.nsteps
  /\ gen.learning_rate = Scenario.learning_rate

(* C8: in the scenario (X = [[1,1],[1,2],[1,3],[1,4]], y = [1,1,-1,-1], *)
(* hinge_loss, nsteps = 50, learning_rate = 0.1) the loss of the 51st   *)
(* pair is strictly less than the loss of the first, and                *)
(* loss[i+1] <= loss[i] for every i from 5 to 49 (pairs counted from 0).*)
C8_ScenarioLossDecreases ==
  InScenario =>
    /\ NPairs = Scenario.nsteps + 1 => RLt(pairs[NPairs].loss, pairs[1].loss)
    /\ \A i \in 5..49 :
         i + 2 <= NPairs => RLe(pairs[i + 2].loss, pairs[i + 1].loss)

(* The scenario run, consumed to its last pair. *)
C8_Witness ==
  /\ InScenario
  /\ NPairs = 51
  /\ stops >= 1

(* C9: the run is lazy and demand-driven: before the first pair is     *)
(* requested nothing has been evaluated or allocated; once the         *)
(* consumer holds m >= 1 pairs, lossfunc has been called exactly m     *)
(* times and theta updated exactly m - 1 times; an exhausted run,      *)
(* asked again, yields nothing more.                                   *)
C9_LazyDemandDriven ==
  /\ NPairs = 0 => (nevals = 0 /\ nupdates = 0 /\ Len(heap) = 2 /\ gen.theta = 0)
  /\ NPairs >= 1 => (nevals = NPairs /\ nupdates = NPairs - 1)
  /\ stops >= 1 => (NPairs = gen.nsteps + 1 /\ gen.pc = "done")

(* An exhausted run of at least one step that was asked again. *)
C9_Witness ==
  /\ stops >= 2
  /\ gen.nsteps >= 1
  /\ NPairs = gen.nsteps + 1

(* C10: gradient_descent never forwards a regularization strength:     *)
(* every yielded loss is the unregularised data loss of the yielded    *)
(* theta and is >= 0, the gradient behind every update is the          *)
(* gradient of the data loss alone (no reg_beta * theta term).         *)
C10_NoRegularizationInRun ==
  /\ \A i \in 1..NPairs :
       /\ pairs[i].loss = LossRef(gen.lossfunc, data.X, data.y, pairs[i].at_yield, Zero)
       /\ RLe(Zero, pairs[i].loss)
  /\ \A i \in 2..NPairs :
       pairs[i].at_yield =
         Stepped(pairs[i - 1].at_yield, gen.learning_rate,
                 GradRef(gen.lossfunc, data.X, data.y, pairs[i - 1].at_yield, Zero))

(* Evaluations and an update happened at a theta that is not zero,     *)
(* where a penalty term would show.                                    *)
C10_Witness ==
  /\ NPairs >= 3
  /\ pairs[2].at_yield # Zeros(Len(pairs[2].at_yield))
  /\ pairs[3].at_yield # pairs[2].at_yield

====
